---- MODULE Spec2Model ----
(***************************************************************************)
(* LauncherSCP (pathos): one Launcher object, the child processes it       *)
(* spawns with subprocess.Popen, and the single caller thread that invokes *)
(* config / launch / response / pid / kill on it.                          *)
(*                                                                         *)
(* Strings are TLA+ strings, built with \o exactly where the code formats  *)
(* or concatenates.  The response sentinel None is a value no child can    *)
(* write.  Time is counted in units of 1.0 of the Selector's timeout.      *)
(***************************************************************************)
EXTENDS Integers, Sequences, FiniteSets, TLC

\* ---------------------------------------------------------------- bounds
MaxLaunch == 2      \* launch() calls explored in the lifecycle specification
MaxCfgLaunch == 1   \* launch() calls explored in the configuration specification
MaxChunks == 2      \* chunks a child writes to its stdout
MaxWait == 3        \* longest observed blocking time of one response() call
MaxText == 3        \* characters the child of a core.py call writes

\* ------------------------------------------------------ program constants
PollTimeout == 2    \* sel.watch(2.0)
delay == 2          \* serve: delay = 2.0

None == "None"

\* process ids: positive, and enough of them for every process spawned
Pids == 1..(MaxLaunch + MaxCfgLaunch)

VARIABLES
  inventory,    \* self.inventory: the configuration record
  _pid,         \* self._pid
  _response,    \* self._response: None or the captured output
  _fromchild,   \* self._fromchild: index in children of the child whose stdout is held, 0 = no handle
  children,     \* every process spawned so far, in spawn order
  pc,           \* where the caller thread is: "idle", "watch", "read", "waitpid", "sleep"
  elapsed,      \* time the current response() call has been blocked
  reads,        \* read() calls completed on output handles since the last launch()
  last,         \* the last call that returned: [op, arg, val, exc], and seq,
                \* a bit that flips at every return
  core          \* the call of a core.py function in progress or returned:
                \* [fn, arg, step, ret, exc]

vars == <<inventory, _pid, _response, _fromchild, children, pc, elapsed, reads, last, core>>

\* ------------------------------------------------------------ Inventory
names == {"source", "destination", "launcher", "options", "background", "stdin"}

StdinDefault == "sys.stdin"

Inventory ==
  [launcher    |-> "scp",
   options     |-> "",
   source      |-> "",
   destination |-> "",
   background  |-> FALSE,
   stdin       |-> StdinDefault]

\* faulty variant: the destination branch assigns source
ConfigKey_typo(inv, key, value) ==
  IF key = "source" THEN [inv EXCEPT !.source = value]
  ELSE IF key = "destination" THEN [inv EXCEPT !.source = value]
  ELSE IF key = "launcher" THEN [inv EXCEPT !.launcher = value]
  ELSE IF key = "options" THEN [inv EXCEPT !.options = value]
  ELSE IF key = "background" THEN [inv EXCEPT !.background = value]
  ELSE IF key = "stdin" THEN [inv EXCEPT !.stdin = value]
  ELSE IF key = "fgbg" THEN [inv EXCEPT !.background = (value \in {"bg", "background"})]
  ELSE inv

\* faulty variant: the fgbg alias recognizes 'bg' only
ConfigKey_bgonly(inv, key, value) ==
  IF key = "source" THEN [inv EXCEPT !.source = value]
  ELSE IF key = "destination" THEN [inv EXCEPT !.destination = value]
  ELSE IF key = "launcher" THEN [inv EXCEPT !.launcher = value]
  ELSE IF key = "options" THEN [inv EXCEPT !.options = value]
  ELSE IF key = "background" THEN [inv EXCEPT !.background = value]
  ELSE IF key = "stdin" THEN [inv EXCEPT !.stdin = value]
  ELSE IF key = "fgbg" THEN [inv EXCEPT !.background = (value = "bg")]
  ELSE inv

\* one iteration of the loop over kwds.items(): the if/elif chain
ConfigKey(inv, key, value) ==
  IF key = "source" THEN [inv EXCEPT !.source = value]
  ELSE IF key = "destination" THEN [inv EXCEPT !.destination = value]
  ELSE IF key = "launcher" THEN [inv EXCEPT !.launcher = value]
  ELSE IF key = "options" THEN [inv EXCEPT !.options = value]
  ELSE IF key = "background" THEN [inv EXCEPT !.background = value]
  ELSE IF key = "stdin" THEN [inv EXCEPT !.stdin = value]
  ELSE IF key = "fgbg" THEN [inv EXCEPT !.background = (value \in {"bg", "background"})]
  ELSE inv

\* the loop, for one iteration order of the dictionary
RECURSIVE ConfigLoop(_, _, _)
ConfigLoop(inv, kwds, order) ==
  IF order = <<>> THEN inv
  ELSE ConfigLoop(ConfigKey(inv, Head(order), kwds[Head(order)]), kwds, Tail(order))

\* the orders in which kwds.items() can yield the keys of kwds
ItemOrders(kwds) ==
  {o \in [1..Cardinality(DOMAIN kwds) -> DOMAIN kwds] :
      \A i, j \in DOMAIN o : i # j => o[i] # o[j]}

\* the dictionary config() returns
ConfigResult(inv) == [i \in names |-> inv[i]]

Returned(op, arg, val) ==
  [op |-> op, arg |-> arg, val |-> val, exc |-> "none", seq |-> 1 - last.seq]

config(kwds) ==
  /\ pc = "idle"
  /\ \E order \in ItemOrders(kwds) :
       /\ inventory' = ConfigLoop(inventory, kwds, order)
       /\ last' = Returned("config", kwds, ConfigResult(inventory'))
  /\ UNCHANGED <<_pid, _response, _fromchild, children, pc, elapsed, reads>>
  /\ UNCHANGED core

\* --------------------------------------------------------------- launch
\* faulty variant: source and destination swapped in the format arguments
Command_swapped(inv) ==
  inv.launcher \o " " \o inv.options \o " " \o inv.destination \o " " \o inv.source

\* '%s %s %s %s' % (launcher, options, source, destination)
Command(inv) ==
  inv.launcher \o " " \o inv.options \o " " \o inv.source \o " " \o inv.destination

\* the process Popen(command, shell=True, stdin=..., stdout=PIPE, ...) starts
Popen(p, command, stdin, stderrMerged) ==
  [pid    |-> p,
   cmd    |-> command,
   stdin  |-> stdin,
   merged |-> stderrMerged,
   out    |-> "",          \* everything written to stdout so far
   buf    |-> "",          \* written and not yet read from the pipe
   closed |-> FALSE,       \* write end of the pipe closed: a reader sees end of stream
   status |-> "running",   \* "running", "zombie" (exited, not reaped), "reaped"
   sigs   |-> 0]           \* SIGTERMs received

Unreaped == {i \in DOMAIN children : children[i].status # "reaped"}

FreePids == Pids \ {children[i].pid : i \in Unreaped}

\* the process id the OS gives the next process: one no unreaped process has.
\* Nothing in the Launcher depends on which, so the least is taken
NewPid == CHOOSE p \in FreePids : \A q \in FreePids : p <= q

\* faulty variant: the background branch does not record the process id
_execute_nopid(command) ==
  LET p == NewPid IN
    IF inventory.background
    THEN /\ children' = Append(children, Popen(p, command, inventory.stdin, TRUE))
         /\ _pid' = 0
         /\ _fromchild' = Len(children) + 1
    ELSE /\ children' = Append(children, Popen(p, command, inventory.stdin, FALSE))
         /\ _fromchild' = Len(children) + 1
         /\ _pid' = 0

\* faulty variant: the foreground branch leaves the process id as it was
_execute_keeppid(command) ==
  LET p == NewPid IN
    IF inventory.background
    THEN /\ children' = Append(children, Popen(p, command, inventory.stdin, TRUE))
         /\ _pid' = p
         /\ _fromchild' = Len(children) + 1
    ELSE /\ children' = Append(children, Popen(p, command, inventory.stdin, FALSE))
         /\ _fromchild' = Len(children) + 1
         /\ _pid' = _pid

\* faulty variant: the background branch keeps the earlier output handle
_execute_keephandle(command) ==
  LET p == NewPid IN
    IF inventory.background
    THEN /\ children' = Append(children, Popen(p, command, inventory.stdin, TRUE))
         /\ _pid' = p
         /\ _fromchild' = _fromchild
    ELSE /\ children' = Append(children, Popen(p, command, inventory.stdin, FALSE))
         /\ _fromchild' = Len(children) + 1
         /\ _pid' = 0

_execute(command) ==
  LET p == NewPid IN
    IF inventory.background
    THEN /\ children' = Append(children, Popen(p, command, inventory.stdin, TRUE))
         /\ _pid' = p
         /\ _fromchild' = Len(children) + 1
    ELSE /\ children' = Append(children, Popen(p, command, inventory.stdin, FALSE))
         /\ _fromchild' = Len(children) + 1
         /\ _pid' = 0

\* faulty variant: launch() does not unset the cached response
launch_keepresponse(limit) ==
  /\ pc = "idle"
  /\ Len(children) < limit
  /\ _response' = _response
  /\ _execute(Command(inventory))
  /\ reads' = 0
  /\ last' = Returned("launch", <<>>, None)
  /\ UNCHANGED <<inventory, pc, elapsed>>
  /\ UNCHANGED core

launch(limit) ==
  /\ pc = "idle"
  /\ Len(children) < limit
  /\ _response' = None
  /\ _execute(Command(inventory))
  /\ reads' = 0
  /\ last' = Returned("launch", <<>>, None)
  /\ UNCHANGED <<inventory, pc, elapsed>>
  /\ UNCHANGED core

\* ------------------------------------------------------------- response
\* select() readiness of a pipe: data is buffered, or the stream is at its end
Readable(c) == c.buf # "" \/ c.closed

\* faulty variant: the cache test is a truth test, so an empty cached
\* response counts as unset
response_truthy ==
  /\ pc = "idle"
  /\ _fromchild # 0
  /\ IF _response # None /\ _response # ""
     THEN /\ last' = Returned("response", <<>>, _response)
          /\ UNCHANGED <<pc, elapsed>>
     ELSE IF _pid <= 0
     THEN /\ pc' = "read"
          /\ elapsed' = 0
          /\ UNCHANGED last
     ELSE /\ pc' = "watch"
          /\ elapsed' = 0
          /\ UNCHANGED last
  /\ UNCHANGED <<inventory, _pid, _response, _fromchild, children, reads>>
  /\ UNCHANGED core

\* faulty variant: the path is chosen by the background option, not by _pid
response_bgflag ==
  /\ pc = "idle"
  /\ _fromchild # 0
  /\ IF _response # None
     THEN /\ last' = Returned("response", <<>>, _response)
          /\ UNCHANGED <<pc, elapsed>>
     ELSE IF ~inventory.background
     THEN /\ pc' = "read"
          /\ elapsed' = 0
          /\ UNCHANGED last
     ELSE /\ pc' = "watch"
          /\ elapsed' = 0
          /\ UNCHANGED last
  /\ UNCHANGED <<inventory, _pid, _response, _fromchild, children, reads>>
  /\ UNCHANGED core

\* response(), up to the point where it returns or blocks.  It is called after
\* a launch(): what _fromchild holds before the first launch is set by the base
\* class
response ==
  /\ pc = "idle"
  /\ _fromchild # 0
  /\ IF _response # None
     THEN /\ last' = Returned("response", <<>>, _response)
          /\ UNCHANGED <<pc, elapsed>>
     ELSE IF _pid <= 0
     THEN /\ pc' = "read"
          /\ elapsed' = 0
          /\ UNCHANGED last
     ELSE /\ pc' = "watch"
          /\ elapsed' = 0
          /\ UNCHANGED last
  /\ UNCHANGED <<inventory, _pid, _response, _fromchild, children, reads>>
  /\ UNCHANGED core

\* select() reports the handle readable: onData starts fobj.read()
onData ==
  /\ pc = "watch"
  /\ Readable(children[_fromchild])
  /\ pc' = "read"
  /\ UNCHANGED <<inventory, _pid, _response, _fromchild, children, elapsed, reads, last>>
  /\ UNCHANGED core

\* faulty variant: a timeout stores an empty response
onTimeout_caches ==
  /\ pc = "watch"
  /\ ~Readable(children[_fromchild])
  /\ elapsed >= PollTimeout
  /\ pc' = "idle"
  /\ elapsed' = 0
  /\ _response' = ""
  /\ last' = Returned("response", <<>>, _response')
  /\ UNCHANGED <<inventory, _pid, _fromchild, children, reads>>
  /\ UNCHANGED core

\* the watch period elapsed with the handle not readable
onTimeout ==
  /\ pc = "watch"
  /\ ~Readable(children[_fromchild])
  /\ elapsed >= PollTimeout
  /\ pc' = "idle"
  /\ elapsed' = 0
  /\ last' = Returned("response", <<>>, _response)
  /\ UNCHANGED <<inventory, _pid, _response, _fromchild, children, reads>>
  /\ UNCHANGED core

\* file.read() with no size: returns at end of stream with everything unread
read ==
  /\ pc = "read"
  /\ children[_fromchild].closed
  /\ _response' = children[_fromchild].buf
  /\ children' = [children EXCEPT ![_fromchild].buf = ""]
  /\ reads' = reads + 1
  /\ pc' = "idle"
  /\ elapsed' = 0
  /\ last' = Returned("response", <<>>, _response')
  /\ UNCHANGED <<inventory, _pid, _fromchild>>
  /\ UNCHANGED core

\* ------------------------------------------------------------ pid, kill
pid ==
  /\ pc = "idle"
  /\ last' = Returned("pid", <<>>, _pid)
  /\ UNCHANGED <<inventory, _pid, _response, _fromchild, children, pc, elapsed, reads>>
  /\ UNCHANGED core

\* the process os.kill / os.waitpid address by process id
ProcessOf(p) == CHOOSE i \in Unreaped : children[i].pid = p

\* faulty variant: kill() also unsets the cached response
kill_clears ==
  /\ pc = "idle"
  /\ IF _pid > 0
     THEN /\ children' = [children EXCEPT ![ProcessOf(_pid)].sigs = @ + 1]
          /\ pc' = "waitpid"
          /\ UNCHANGED last
     ELSE /\ last' = Returned("kill", <<>>, None)
          /\ UNCHANGED <<children, pc>>
  /\ _response' = None
  /\ UNCHANGED <<inventory, _pid, _fromchild, elapsed, reads>>
  /\ UNCHANGED core

kill ==
  /\ pc = "idle"
  /\ IF _pid > 0
     THEN /\ children' = [children EXCEPT ![ProcessOf(_pid)].sigs = @ + 1]
          /\ pc' = "waitpid"
          /\ UNCHANGED last
     ELSE /\ last' = Returned("kill", <<>>, None)
          /\ UNCHANGED <<children, pc>>
  /\ UNCHANGED <<inventory, _pid, _response, _fromchild, elapsed, reads>>
  /\ UNCHANGED core

\* faulty variant: the reap also unsets the cached response
waitpid_clears ==
  /\ pc = "waitpid"
  /\ children[ProcessOf(_pid)].status = "zombie"
  /\ children' = [children EXCEPT ![ProcessOf(_pid)].status = "reaped"]
  /\ _pid' = 0
  /\ _response' = None
  /\ pc' = "idle"
  /\ last' = Returned("kill", <<>>, None)
  /\ UNCHANGED <<inventory, _fromchild, elapsed, reads>>
  /\ UNCHANGED core

\* os.waitpid(self._pid, 0) returns once the process has exited
waitpid ==
  /\ pc = "waitpid"
  /\ children[ProcessOf(_pid)].status = "zombie"
  /\ children' = [children EXCEPT ![ProcessOf(_pid)].status = "reaped"]
  /\ _pid' = 0
  /\ pc' = "idle"
  /\ last' = Returned("kill", <<>>, None)
  /\ UNCHANGED <<inventory, _response, _fromchild, elapsed, reads>>
  /\ UNCHANGED core

\* ---------------------------------------------------------- environment
\* a running child writes a chunk to its stdout.  Only the pipe of the child
\* in _fromchild has a reader: replacing _fromchild drops the last reference
\* to the earlier file object, which closes it
ChildWrite(i) ==
  /\ i = _fromchild
  /\ children[i].status = "running"
  /\ ~children[i].closed
  /\ Len(children[i].out) < MaxChunks
  /\ children' = [children EXCEPT ![i].out = @ \o ToString(i), ![i].buf = @ \o ToString(i)]
  /\ UNCHANGED <<inventory, _pid, _response, _fromchild, pc, elapsed, reads, last>>
  /\ UNCHANGED core

\* a running child closes its stdout and keeps running
ChildClose(i) ==
  /\ i = _fromchild
  /\ children[i].status = "running"
  /\ ~children[i].closed
  /\ children' = [children EXCEPT ![i].closed = TRUE]
  /\ UNCHANGED <<inventory, _pid, _response, _fromchild, pc, elapsed, reads, last>>
  /\ UNCHANGED core

\* a running child exits, of its own accord or on SIGTERM
ChildExit(i) ==
  /\ children[i].status = "running"
  /\ children' = [children EXCEPT ![i].status = "zombie", ![i].closed = TRUE]
  /\ UNCHANGED <<inventory, _pid, _response, _fromchild, pc, elapsed, reads, last>>
  /\ UNCHANGED core

\* time passes while response() is blocked: in select() only while the handle
\* is not readable and the timeout has not run out, in read() only while the
\* stream is open
Tick ==
  /\ \/ pc = "watch" /\ ~Readable(children[_fromchild]) /\ elapsed < PollTimeout
     \/ pc = "read" /\ ~children[_fromchild].closed /\ elapsed < MaxWait
  /\ elapsed' = elapsed + 1
  /\ UNCHANGED <<inventory, _pid, _response, _fromchild, children, pc, reads, last>>
  /\ UNCHANGED core

\* ------------------------------------------------------- specifications
\* no core.py function has been called
NoCall == [fn |-> "none", arg |-> <<>>, step |-> "none", ret |-> None, exc |-> "none"]

InitLauncher ==
  /\ _pid = 0
  /\ _response = None
  /\ _fromchild = 0

Init ==
  /\ inventory = Inventory
  /\ InitLauncher
  /\ children = <<>>
  /\ pc = "idle"
  /\ elapsed = 0
  /\ reads = 0
  /\ last = [op |-> "__init__", arg |-> <<>>, val |-> None, exc |-> "none", seq |-> 0]
  /\ core = NoCall

\* config() inputs of the lifecycle specification
LifeKwds == {[background |-> TRUE], [background |-> FALSE]}

Next ==
  \/ \E kwds \in LifeKwds : config(kwds)
  \/ launch(MaxLaunch)
  \/ response
  \/ onData
  \/ onTimeout
  \/ read
  \/ pid
  \/ kill
  \/ waitpid
  \/ \E i \in DOMAIN children : ChildWrite(i)
  \/ \E i \in DOMAIN children : ChildClose(i)
  \/ \E i \in DOMAIN children : ChildExit(i)
  \/ Tick

Spec == Init /\ [][Next]_vars

\* config() inputs of the configuration specification: the call core.copy
\* makes, the calls of the module's usage example, each recognized key, the
\* fgbg alias, a key outside the allow-list, and no key at all
CfgKwds ==
  {[options |-> "-q", source |-> "/tmp/a.txt", destination |-> "host:~"],
   [source |-> "host:~/foo.txt", destination |-> "."],
   [launcher |-> "cp"],
   [stdin |-> "file"],
   [background |-> TRUE],
   [background |-> FALSE],
   [fgbg |-> "bg"],
   [fgbg |-> "background"],
   [fgbg |-> "foreground"],
   [background |-> FALSE, fgbg |-> "bg"],
   [background |-> TRUE, fgbg |-> "fg"],
   [nodes |-> "4"],
   <<>>}

NextCfg ==
  \/ \E kwds \in CfgKwds : config(kwds)
  \/ launch(MaxCfgLaunch)
  \/ pid

SpecCfg == Init /\ [][NextCfg]_vars

TypeOK ==
  /\ _pid \in {0} \cup Pids
  /\ pc \in {"idle", "watch", "read", "waitpid", "sleep"}
  /\ elapsed \in 0..MaxWait
  /\ _fromchild \in 0..Len(children)

\* -------------------------------------------------------------- core.py
\* The functions of core.py drive a LauncherSSH: a Launcher with the keys
\* command and rhost in place of source and destination, and the same
\* _execute, response, pid and kill.

\* the characters the child of a core.py call writes
TextChars == {"1", "2", " ", "\n", "x"}

RECURSIVE Str(_)
Str(q) == IF q = <<>> THEN "" ELSE Head(q) \o Str(Tail(q))

\* the characters of a string
Chars(s) == CHOOSE q \in [1..Len(s) -> TextChars] : Str(q) = s

InventorySSH ==
  [launcher   |-> "ssh",
   options    |-> "",
   command    |-> "",
   rhost      |-> "",
   background |-> FALSE,
   stdin      |-> StdinDefault]

\* LauncherSSH.config: the supplied recognized keys replace the held ones
ConfigSSH(inv, kwds) ==
  [k \in DOMAIN inv |-> IF k \in DOMAIN kwds THEN kwds[k] ELSE inv[k]]

\* the command of a shell-Launcher: ssh options rhost "command"
CommandSSH(inv) ==
  inv.launcher \o " " \o inv.options \o " " \o inv.rhost \o " \"" \o inv.command \o "\""

\* launcher = LauncherSSH(name); launcher.config(**kwds)
NewLauncher(kwds) ==
  /\ inventory' = ConfigSSH(InventorySSH, kwds)
  /\ _pid' = 0
  /\ _response' = None
  /\ _fromchild' = 0
  /\ reads' = 0
  /\ last' = Returned("config", kwds, inventory')

Called(fn, arg) == [fn |-> fn, arg |-> arg, step |-> "launch", ret |-> None, exc |-> "none"]

\* run(command, rhost, bg) up to launcher.config, called as fn with arg
Run(fn, arg, command, rhost, bg) ==
  /\ core.fn = "none"
  /\ pc = "idle"
  /\ NewLauncher([options |-> "-q", command |-> command, rhost |-> rhost,
                  background |-> (IF bg THEN TRUE ELSE FALSE)])
  /\ core' = Called(fn, arg)
  /\ UNCHANGED <<children, pc, elapsed>>

run(command, rhost, bg) ==
  Run("run", [command |-> command, rhost |-> rhost, bg |-> bg], command, rhost, bg)

\* faulty variant: kill leaves bg at run's default
core_kill_bg(p, rhost) ==
  Run("kill", [pid |-> p, rhost |-> rhost], "kill -n TERM " \o ToString(p), rhost, TRUE)

\* kill(pid, rhost)
core_kill(p, rhost) ==
  Run("kill", [pid |-> p, rhost |-> rhost], "kill -n TERM " \o ToString(p), rhost, FALSE)

\* getpid(target, rhost) up to launcher.config: run(command, rhost), bg defaulted
getpid(target, rhost) ==
  Run("getpid", [target |-> target, rhost |-> rhost],
      "ps ax | grep '" \o target \o "'", rhost, TRUE)

\* pickport(rhost) up to launcher.config
pickport(rhost) ==
  /\ core.fn = "none"
  /\ pc = "idle"
  /\ NewLauncher([command |-> "python", rhost |-> rhost,
                  background |-> FALSE, stdin |-> "portpicker.py"])
  /\ core' = Called("pickport", [rhost |-> rhost])
  /\ UNCHANGED <<children, pc, elapsed>>

\* serve(server, rhost, rport, profile) up to rserver.config
serve(server, rhost, rport, profile) ==
  /\ core.fn = "none"
  /\ pc = "idle"
  /\ LET file == "~/bin/" \o server \o ".py"
         command == "source " \o profile \o "; " \o file \o " -p " \o ToString(rport)
     IN NewLauncher([options |-> "-q", command |-> command, rhost |-> rhost,
                     background |-> TRUE])
  /\ core' = Called("serve", [server |-> server, rhost |-> rhost,
                              rport |-> rport, profile |-> profile])
  /\ UNCHANGED <<children, pc, elapsed>>

\* launcher.launch() of the shell-Launcher
sshLaunch ==
  /\ core.step = "launch"
  /\ pc = "idle"
  /\ _response' = None
  /\ _execute(CommandSSH(inventory))
  /\ reads' = 0
  /\ last' = Returned("launch", <<>>, None)
  /\ core' = [core EXCEPT !.step = "response"]
  /\ UNCHANGED <<inventory, pc, elapsed>>

\* the one launcher.response() call of the function
coreResponse ==
  /\ core.step = "response"
  /\ last.op = "launch"
  /\ response

\* launcher.response() has returned to the function
Responded == core.step = "response" /\ last.op = "response" /\ pc = "idle"

CoreFrame == <<inventory, _pid, _response, _fromchild, children, pc, elapsed, reads, last>>

\* return launcher.response(), in run and so in kill
run_return ==
  /\ Responded
  /\ core.fn \in {"run", "kill"}
  /\ core' = [core EXCEPT !.step = "done", !.ret = last.val]
  /\ UNCHANGED CoreFrame

\* str.split(" ")
RECURSIVE Split(_)
Split(q) ==
  IF \A i \in DOMAIN q : q[i] # " " THEN <<Str(q)>>
  ELSE LET i == CHOOSE j \in DOMAIN q : q[j] = " " /\ \A k \in 1..(j - 1) : q[k] # " "
       IN <<Str(SubSeq(q, 1, i - 1))>> \o Split(SubSeq(q, i + 1, Len(q)))

\* faulty variant: the second element is returned whenever there is one
getpid_return_second ==
  /\ Responded
  /\ core.fn = "getpid"
  /\ LET resp == last.val IN
       IF resp = None
       THEN core' = [core EXCEPT !.step = "done", !.exc = "AttributeError"]
       ELSE LET all == Split(Chars(resp))
                two == SubSeq(all, 1, IF Len(all) < 2 THEN Len(all) ELSE 2)
            IN IF Len(two) < 2
               THEN IF two[1] # ""
                    THEN core' = [core EXCEPT !.step = "done", !.ret = two[1]]
                    ELSE core' = [core EXCEPT !.step = "done", !.exc = "IndexError"]
               ELSE core' = [core EXCEPT !.step = "done", !.ret = two[2]]
  /\ UNCHANGED CoreFrame

\* pid = response.split(" ")[0:2]; return pid[0] or pid[1]
getpid_return ==
  /\ Responded
  /\ core.fn = "getpid"
  /\ LET resp == last.val IN
       IF resp = None
       THEN core' = [core EXCEPT !.step = "done", !.exc = "AttributeError"]
       ELSE LET all == Split(Chars(resp))
                two == SubSeq(all, 1, IF Len(all) < 2 THEN Len(all) ELSE 2)
            IN IF two[1] # ""
               THEN core' = [core EXCEPT !.step = "done", !.ret = two[1]]
               ELSE IF Len(two) < 2
               THEN core' = [core EXCEPT !.step = "done", !.exc = "IndexError"]
               ELSE core' = [core EXCEPT !.step = "done", !.ret = two[2]]
  /\ UNCHANGED CoreFrame

Whitespace == {" ", "\n"}

\* str.strip(), as int() applies it
RECURSIVE Strip(_)
Strip(q) ==
  IF q = <<>> THEN q
  ELSE IF Head(q) \in Whitespace THEN Strip(Tail(q))
  ELSE IF q[Len(q)] \in Whitespace THEN Strip(SubSeq(q, 1, Len(q) - 1))
  ELSE q

DigitValue == [c \in {"1", "2"} |-> IF c = "1" THEN 1 ELSE 2]

\* int() accepts these characters
IsInt(q) ==
  LET t == Strip(q) IN t # <<>> /\ \A i \in DOMAIN t : t[i] \in DOMAIN DigitValue

RECURSIVE Decimal(_)
Decimal(t) ==
  IF t = <<>> THEN 0 ELSE 10 * Decimal(SubSeq(t, 1, Len(t) - 1)) + DigitValue[t[Len(t)]]

\* faulty variant: a response that does not parse gives port 0
pickport_return_zero ==
  /\ Responded
  /\ core.fn = "pickport"
  /\ LET resp == last.val IN
       IF resp # None /\ IsInt(Chars(resp))
       THEN core' = [core EXCEPT !.step = "done", !.ret = Decimal(Strip(Chars(resp)))]
       ELSE core' = [core EXCEPT !.step = "done", !.ret = 0]
  /\ UNCHANGED CoreFrame

\* try: rport = int(launcher.response()); except: raise TunnelException
pickport_return ==
  /\ Responded
  /\ core.fn = "pickport"
  /\ LET resp == last.val IN
       IF resp # None /\ IsInt(Chars(resp))
       THEN core' = [core EXCEPT !.step = "done", !.ret = Decimal(Strip(Chars(resp)))]
       ELSE core' = [core EXCEPT !.step = "done", !.exc = "TunnelException"]
  /\ UNCHANGED CoreFrame

\* faulty variant: a response other than '' and None is raised as an error
serve_log_raises ==
  /\ Responded
  /\ core.fn = "serve"
  /\ IF last.val \in {"", None}
     THEN /\ core' = [core EXCEPT !.step = "sleep", !.ret = last.val]
          /\ pc' = "sleep"
     ELSE /\ core' = [core EXCEPT !.step = "done", !.exc = "ValueError"]
          /\ pc' = pc
  /\ elapsed' = 0
  /\ UNCHANGED <<inventory, _pid, _response, _fromchild, children, reads, last>>

\* serve after rserver.response(): the response is logged, then sleep(delay)
serve_log ==
  /\ Responded
  /\ core.fn = "serve"
  /\ core' = [core EXCEPT !.step = "sleep", !.ret = last.val]
  /\ pc' = "sleep"
  /\ elapsed' = 0
  /\ UNCHANGED <<inventory, _pid, _response, _fromchild, children, reads, last>>

\* time passes in sleep(delay)
sleep ==
  /\ pc = "sleep"
  /\ elapsed < delay
  /\ elapsed' = elapsed + 1
  /\ UNCHANGED <<inventory, _pid, _response, _fromchild, children, pc, reads, last, core>>

\* sleep(delay) is over: return response
serve_return ==
  /\ pc = "sleep"
  /\ elapsed >= delay
  /\ pc' = "idle"
  /\ elapsed' = 0
  /\ core' = [core EXCEPT !.step = "done"]
  /\ UNCHANGED <<inventory, _pid, _response, _fromchild, children, reads, last>>

\* the child of a core.py call writes a character to its stdout
ChildWriteText(i, ch) ==
  /\ i = _fromchild
  /\ children[i].status = "running"
  /\ ~children[i].closed
  /\ Len(children[i].out) < MaxText
  /\ children' = [children EXCEPT ![i].out = @ \o ch, ![i].buf = @ \o ch]
  /\ UNCHANGED <<inventory, _pid, _response, _fromchild, pc, elapsed, reads, last, core>>

\* one call of a core.py function, on its own Launcher
NextCore ==
  \/ \E bg \in BOOLEAN : run("echo hi", "host", bg)
  \/ core_kill(1234, "host")
  \/ getpid("myproc", "host")
  \/ pickport("host")
  \/ serve("ppserver", "host", 8080, ".bash_profile")
  \/ sshLaunch
  \/ coreResponse
  \/ onData
  \/ onTimeout
  \/ read
  \/ Tick
  \/ run_return
  \/ getpid_return
  \/ pickport_return
  \/ serve_log
  \/ sleep
  \/ serve_return
  \/ \E i \in DOMAIN children : \E ch \in TextChars : ChildWriteText(i, ch)
  \/ \E i \in DOMAIN children : ChildClose(i)
  \/ \E i \in DOMAIN children : ChildExit(i)

SpecCore == Init /\ [][NextCore]_vars

\* =====================================================================
\* Properties
\* =====================================================================
\* the step is the return of a call of op
Returns(op) == last'.seq # last.seq /\ last'.op = op

\* the step is the return of a response() call that took the background path
BgPollReturns == pc \in {"watch", "read"} /\ pc' = "idle" /\ _pid > 0

RECURSIVE Rep(_, _)
Rep(s, n) == IF n = 0 THEN "" ELSE s \o Rep(s, n - 1)

\* what child i can have written
OutputsOf(i) == {Rep(ToString(i), n) : n \in 0..MaxChunks}

C2_BoundedBlocking ==
  (pc \in {"watch", "read"} /\ _pid > 0) => elapsed <= PollTimeout

\* the Launcher's last launch was a foreground launch
FgChild == _fromchild # 0 /\ ~children[_fromchild].merged

\* C3: on a foreground Launcher the read of the output handle returns
\* everything the child wrote, happens at most once per launch, and every
\* other response() call returns the cached value without reading.
C3_ForegroundResponse ==
  [][(FgChild /\ Len(children') = Len(children))
       => /\ reads' <= 1
          /\ (pc = "read" /\ pc' = "idle")
               => /\ reads = 0 /\ reads' = 1
                  /\ Returns("response")
                  /\ last'.val = children[_fromchild].out
                  /\ _response' = last'.val
          /\ (pc = "idle" /\ Returns("response"))
               => /\ last'.val = _response
                  /\ children' = children
          /\ (_response # None)
               => (_response' = _response /\ reads' = reads /\ pc' # "read")]_vars

\* a foreground child ended without output, and the empty string was read
\* once and is cached
C3_Witness ==
  /\ FgChild /\ pc = "idle"
  /\ last.op = "response" /\ last.val = "" /\ _response = ""
  /\ reads = 1
  /\ children[_fromchild].out = ""

\* C4: launch() with background set leaves pid > 0, pid() returns it, and a
\* kill() that returns leaves pid = 0.
C4_BackgroundPid ==
  [][/\ (Returns("launch") /\ inventory.background) => _pid' > 0
     /\ Returns("pid") => (last'.val = _pid /\ _pid' = _pid)
     /\ Returns("kill") => _pid' = 0]_vars

\* a background child of a second launch was killed and reaped
C4_Witness ==
  /\ last.op = "kill" /\ _pid = 0
  /\ Len(children) = 2
  /\ children[2].merged /\ children[2].sigs = 1 /\ children[2].status = "reaped"

\* C5: launch() with background unset leaves pid = 0.
C5_ForegroundPid ==
  [][(Returns("launch") /\ ~inventory.background) => _pid' = 0]_vars

\* a foreground launch made while an earlier background child, never killed,
\* was still recorded in pid
C5_Witness ==
  /\ last.op = "launch" /\ _pid = 0
  /\ Len(children) = 2
  /\ ~children[2].merged
  /\ children[1].merged /\ children[1].sigs = 0

\* C6: a launch() spawns exactly one process, nothing else spawns, launch()
\* unsets the cache, and a response() that returns data returns data of the
\* child of the latest launch.
C6_LaunchSpawnsOne ==
  [][/\ Returns("launch")
          => /\ Len(children') = Len(children) + 1
             /\ SubSeq(children', 1, Len(children)) = children
             /\ _fromchild' = Len(children')
             /\ _response' = None
     /\ Len(children') # Len(children) => Returns("launch")
     /\ (Returns("response") /\ last'.val # None)
          => (_fromchild = Len(children) /\ last'.val \in OutputsOf(Len(children)))]_vars

\* the output of a first child was read, and after a second launch response()
\* returned the second child's output
C6_Witness ==
  /\ Len(children) = 2
  /\ children[1].out # "" /\ children[1].buf = ""
  /\ last.op = "response" /\ last.val = ToString(2) /\ _response = last.val

\* C9: kill() with pid > 0 sends one signal to the process pid names, waits
\* until that process has exited, reaps it and sets pid to 0; with pid <= 0 it
\* changes nothing; the cached response is never changed.
C9_Kill ==
  [][/\ (pc = "idle" /\ pc' = "waitpid")
          => /\ _pid > 0
             /\ children[_fromchild].pid = _pid
             /\ children' = [children EXCEPT ![_fromchild].sigs = @ + 1]
             /\ _pid' = _pid /\ _response' = _response
     /\ (pc = "waitpid")
          => /\ _response' = _response
             /\ IF pc' = "idle"
                THEN /\ Returns("kill")
                     /\ children[_fromchild].status = "zombie"
                     /\ children' = [children EXCEPT ![_fromchild].status = "reaped"]
                     /\ _pid' = 0
                ELSE pc' = "waitpid" /\ _pid' = _pid
     /\ (pc = "idle" /\ Returns("kill"))
          => (_pid <= 0 /\ _pid' = _pid /\ children' = children /\ _response' = _response)
     /\ (\E i \in DOMAIN children : children'[i].sigs # children[i].sigs)
          => (pc = "idle" /\ pc' = "waitpid")]_vars

\* a background child whose output was cached has been killed and reaped, and
\* the cache still holds the output
C9_Witness ==
  /\ last.op = "kill" /\ _pid = 0 /\ pc = "idle"
  /\ _fromchild # 0
  /\ children[_fromchild].merged
  /\ children[_fromchild].sigs = 1 /\ children[_fromchild].status = "reaped"
  /\ _response # None /\ _response # "" /\ _response = children[_fromchild].out

\* C7 as stated: a config() call sets each of the six recognized keys it
\* supplies, leaves every other recognized key as it was, and returns the
\* record of the six keys.
C7_ConfigAllowList ==
  [][Returns("config")
       => /\ \A k \in names :
               inventory'[k] = IF k \in DOMAIN last'.arg THEN last'.arg[k] ELSE inventory[k]
          /\ last'.val = [k \in names |-> inventory'[k]]]_vars

\* the values a config() call with these kwds can leave in background
BackgroundAfter(kwds, old) ==
  IF "background" \in DOMAIN kwds /\ "fgbg" \in DOMAIN kwds
  THEN {kwds.background, kwds.fgbg \in {"bg", "background"}}
  ELSE IF "background" \in DOMAIN kwds THEN {kwds.background}
  ELSE IF "fgbg" \in DOMAIN kwds THEN {kwds.fgbg \in {"bg", "background"}}
  ELSE {old}

\* C7 amended: as stated for source, destination, launcher, options and stdin;
\* background is set by the key background and also by the alias fgbg (true
\* exactly for 'bg' and 'background'), either of the two when a call supplies
\* both; every other key changes nothing; config() returns the record of the
\* six keys.
C7_ConfigMerge ==
  [][Returns("config")
       => /\ \A k \in names \ {"background"} :
               inventory'[k] = IF k \in DOMAIN last'.arg THEN last'.arg[k] ELSE inventory[k]
          /\ inventory'.background \in BackgroundAfter(last'.arg, inventory.background)
          /\ DOMAIN inventory' = names
          /\ last'.val = [k \in names |-> inventory'[k]]
          /\ <<_pid, _response, _fromchild, children>>' = <<_pid, _response, _fromchild, children>>]_vars

\* config(fgbg='bg') turned background on and kept the endpoints and options
\* of an earlier call
C7_Witness ==
  /\ last.op = "config" /\ DOMAIN last.arg = {"fgbg"}
  /\ inventory.background
  /\ inventory.source = "/tmp/a.txt" /\ inventory.options = "-q"
  /\ inventory.launcher = "cp"
  /\ last.val = inventory

RECURSIVE Join(_, _)
Join(parts, sep) ==
  IF Len(parts) = 1 THEN Head(parts) ELSE Head(parts) \o sep \o Join(Tail(parts), sep)

\* C8: the command a launch() spawns is launcher, options, source and
\* destination as configured when launch() is called, joined by single spaces.
C8_Command ==
  [][Returns("launch")
       => /\ children'[Len(children')].cmd =
               Join(<<inventory.launcher, inventory.options,
                      inventory.source, inventory.destination>>, " ")
          /\ (/\ inventory.launcher = "scp" /\ inventory.options = "-q"
              /\ inventory.source = "/tmp/a.txt" /\ inventory.destination = "host:~")
               => children'[Len(children')].cmd = "scp -q /tmp/a.txt host:~"]_vars

\* the launch of the copy core.copy configures
C8_Witness ==
  /\ last.op = "launch"
  /\ inventory.options = "-q" /\ inventory.source = "/tmp/a.txt"
  /\ inventory.destination = "host:~"
  /\ children[Len(children)].cmd = "scp -q /tmp/a.txt host:~"

\* an endpoint that names neither a host nor a path
Malformed(endpoint) == endpoint = ""

\* C10: with a malformed source or destination no step spawns a process, and
\* a launch() call ends with the bad-endpoint error.
C10_BadEndpointRejected ==
  [][(Malformed(inventory.source) \/ Malformed(inventory.destination))
       => /\ Len(children') = Len(children)
          /\ Returns("launch") => last'.exc = "FileNotFound"]_vars

\* C11 as stated: no child other than the one in the output handle is alive.
C11_OneLiveChild ==
  \A i \in DOMAIN children : i # _fromchild => children[i].status # "running"

\* C11 amended: the Launcher records one child at a time, the one of its
\* latest launch: the output handle is that child's, and pid, when positive,
\* is that child's process id and the child is not reaped; launch() neither
\* signals nor reaps the children of earlier launches, which stay alive.
C11_OneRecordedChild ==
  [][/\ _fromchild' \in {0, Len(children')}
     /\ Len(children') > 0 => _fromchild' = Len(children')
     /\ _pid' > 0
          => /\ children'[_fromchild'].pid = _pid'
             /\ children'[_fromchild'].merged
             /\ children'[_fromchild'].status # "reaped"
     /\ Returns("launch")
          => \A i \in DOMAIN children :
               /\ children'[i].status = children[i].status
               /\ children'[i].sigs = children[i].sigs]_vars

\* two launches with no kill() between them: the background child of the
\* first is still running, unsignalled, and is no longer recorded
C11_Witness ==
  /\ Len(children) = 2 /\ _fromchild = 2
  /\ last.op = "launch"
  /\ children[1].merged /\ children[1].status = "running" /\ children[1].sigs = 0
  /\ children[2].status = "running"
  /\ _pid # children[1].pid

\* C16: a config() call that supplies only fgbg sets background to true
\* exactly when the value is 'bg' or 'background', and changes no other key.
C16_FgbgAlias ==
  [][(Returns("config") /\ DOMAIN last'.arg = {"fgbg"})
       => /\ inventory'.background
               = (last'.arg.fgbg = "bg" \/ last'.arg.fgbg = "background")
          /\ \A k \in names \ {"background"} : inventory'[k] = inventory[k]
          /\ DOMAIN inventory' = names]_vars

\* config(fgbg='background') turned background on and left the configured
\* endpoints and options alone
C16_Witness ==
  /\ last.op = "config" /\ last.arg = [fgbg |-> "background"]
  /\ inventory.background
  /\ inventory.source = "host:~/foo.txt" /\ inventory.destination = "."
  /\ inventory.options = "-q" /\ inventory.stdin = "file"

\* C18: when kill() of a live background child returns, the Launcher holds
\* no output handle.
C18_HandleReleasedOnKill ==
  [][(pc = "waitpid" /\ pc' = "idle") => _fromchild' = 0]_vars

\* the child in the output handle was launched in the background and has
\* been killed by kill(), and nothing is cached
KilledUncached ==
  /\ _fromchild # 0 /\ _pid = 0 /\ _response = None
  /\ children[_fromchild].merged
  /\ children[_fromchild].sigs > 0 /\ children[_fromchild].status = "reaped"

\* C19: after a background launch() and a kill(), with nothing cached, a
\* response() does not poll: it goes to the blocking read of the killed
\* child's handle, returns only at end of stream with what was unread, never
\* None, and caches it.
C19_ResponseAfterKill ==
  [][KilledUncached
       => /\ (pc = "idle" /\ pc' # "idle") => (pc' = "read" /\ elapsed' = 0)
          /\ pc' # "watch"
          /\ (pc = "read" /\ pc' = "idle")
               => /\ Returns("response")
                  /\ children[_fromchild].closed
                  /\ last'.val = children[_fromchild].out
                  /\ last'.val # None
                  /\ _response' = last'.val
                  /\ reads' = 1]_vars

\* the response() that follows the kill() of a background child is in the
\* blocking read, with output of the killed child unread
C19_Witness ==
  /\ KilledUncached
  /\ pc = "read" /\ last.op = "kill"
  /\ children[_fromchild].buf # ""

CoreEnds(fn) == core.fn = fn /\ core.step # "done" /\ core'.step = "done"

\* C15: run(command, rhost, bg) configures and launches one shell-Launcher
\* and returns exactly what its response() yields; with bg false, as in
\* kill(pid, rhost), which runs 'kill -n TERM <pid>' with background false,
\* the result is the full output of the command and is never None.
C15_Run ==
  [][(CoreEnds("run") \/ CoreEnds("kill"))
       => /\ Len(children) = 1
          /\ children[1].cmd = CommandSSH(inventory)
          /\ inventory.options = "-q" /\ inventory.rhost = core.arg.rhost
          /\ last.op = "response"
          /\ core'.exc = "none"
          /\ core'.ret = last.val
          /\ ~inventory.background
               => /\ core'.ret # None
                  /\ core'.ret = children[1].out
                  /\ children[1].closed
          /\ CoreEnds("run")
               => /\ inventory.command = core.arg.command
                  /\ inventory.background = core.arg.bg
          /\ CoreEnds("kill")
               => /\ inventory.command = "kill -n TERM 1234"
                  /\ children[1].cmd = "ssh -q host \"kill -n TERM 1234\""
                  /\ ~inventory.background]_vars

\* kill(1234, "host") has returned the whole, non-empty output of the command
C15_Witness ==
  /\ core.fn = "kill" /\ core.step = "done"
  /\ core.ret # None /\ core.ret # ""
  /\ core.ret = children[1].out

\* C12: pickport(rhost) launches the helper in the foreground and returns
\* the response parsed as an integer; whenever the response is not the text
\* of an integer (non-numeric, empty) it raises TunnelException and returns
\* no port.
C12_Pickport ==
  [][CoreEnds("pickport")
       => /\ Len(children) = 1
          /\ ~inventory.background /\ _pid = 0
          /\ inventory.command = "python" /\ inventory.stdin = "portpicker.py"
          /\ children[1].stdin = "portpicker.py"
          /\ last.op = "response" /\ last.val = children[1].out
          /\ LET text == Strip(Chars(last.val))
                 numeric == text # <<>> /\ \A i \in DOMAIN text : text[i] \in {"1", "2"}
             IN /\ numeric => /\ core'.exc = "none"
                              /\ core'.ret \in Nat
                              /\ ToString(core'.ret) = Str(text)
                /\ ~numeric => /\ core'.exc = "TunnelException"
                               /\ core'.ret = None
          /\ last.val = "12\n" => core'.ret = 12
          /\ last.val \in {"", "x", "1x", "1 2", "\n"} => core'.exc = "TunnelException"]_vars

\* pickport has parsed the response "12\n" of the helper into the port 12
C12_Witness ==
  /\ core.fn = "pickport" /\ core.step = "done"
  /\ last.val = "12\n"
  /\ core.ret = 12 /\ core.exc = "none"

\* the first two space-delimited tokens of a text
FirstTwo(s) ==
  LET all == Split(Chars(s)) IN IF Len(all) < 2 THEN all ELSE <<all[1], all[2]>>

\* C13: getpid(target, rhost) runs "ps ax | grep '<target>'" on rhost and
\* returns the first non-empty token among the first two space-delimited
\* tokens of the response, when there is one ("1 2" gives "1", a response
\* with a leading space gives its second token).
C13_GetpidToken ==
  [][(/\ CoreEnds("getpid")
      /\ last.val # None
      /\ \E i \in DOMAIN FirstTwo(last.val) : FirstTwo(last.val)[i] # "")
       => /\ children[1].cmd = "ssh -q host \"ps ax | grep 'myproc'\""
          /\ last.op = "response"
          /\ core'.exc = "none"
          /\ LET two == FirstTwo(last.val)
                 first == CHOOSE i \in DOMAIN two :
                            two[i] # "" /\ \A j \in 1..(i - 1) : two[j] = ""
             IN core'.ret = two[first]
          /\ last.val = "1 2" => core'.ret = "1"
          /\ last.val = "12 " => core'.ret = "12"
          /\ last.val = " 1" => core'.ret = "1"
          /\ last.val = " 2 " => core'.ret = "2"]_vars

\* getpid has returned the second token of a response with a leading space
C13_Witness ==
  /\ core.fn = "getpid" /\ core.step = "done"
  /\ last.val = " 1 "
  /\ core.ret = "1" /\ core.exc = "none"

\* C14: getpid(target, rhost) does not fail, whatever run() yields to it: a
\* response with several tokens, an empty response, or None from a
\* background poll that timed out.
C14_GetpidNeverFails ==
  [][CoreEnds("getpid") => core'.exc = "none"]_vars

\* C17: serve(server, rhost, rport, profile) launches the server command in
\* the background, never raises because of the response (empty, None or any
\* other text), returns only after the whole delay has passed since the
\* response, and returns the response it observed.
C17_Serve ==
  [][/\ core'.fn = "serve" => core'.exc = "none"
     /\ CoreEnds("serve")
          => /\ Len(children) = 1
             /\ inventory.background /\ children[1].merged
             /\ inventory.command = "source .bash_profile; ~/bin/ppserver.py -p 8080"
             /\ children[1].cmd = CommandSSH(inventory)
             /\ last.op = "response"
             /\ core.step = "sleep" /\ pc = "sleep"
             /\ elapsed >= delay
             /\ core'.ret = last.val]_vars

\* serve has slept and returned a response that is neither '' nor None
C17_Witness ==
  /\ core.fn = "serve" /\ core.step = "done"
  /\ core.exc = "none"
  /\ core.ret = last.val
  /\ core.ret \notin {"", None}
====
